---- MODULE Spec2Model ----
(***************************************************************************)
(* pydp700: PowerSupply, a command/response driver for DP700 series power  *)
(* supplies over a pyserial port (src/pydp700/dp700.py).                   *)
(*                                                                         *)
(* Bytes and text are sequences of one-character strings.  The byte "?"    *)
(* stands for a byte that is not valid UTF-8 (0xFF).  Voltages, currents   *)
(* and limits are whole volts and amperes.  An optional value (Python's    *)
(* None or a number) is the empty sequence or a one-element sequence.      *)
(***************************************************************************)
EXTENDS Integers, Sequences, FiniteSets, TLC

VARIABLES
    pc,             \* "start", "scope", "ctor_failed", "exited", "exit_failed"
    is_open,        \* self._serial_port.is_open
    baudrate,       \* self._serial_port.baudrate
    ident,          \* _manufacturer, _model, _serial, _software_version, _id
    max_voltage,    \* self._max_voltage (optional)
    max_current,    \* self._max_current (optional)
    op,             \* the operation called last and its argument
    io,             \* the transport calls made by that operation, in order
    calls,          \* the kind of every transport call made so far, in order
    last_write,     \* the command passed to the last write call so far
    loc_writes,     \* how many write calls so far carried :SYST:LOC
    result,         \* what the last operation returned or raised
    nops            \* operations called inside the scope so far

vars == <<pc, is_open, baudrate, ident, max_voltage, max_current, op, io,
          calls, last_write, loc_writes, result, nops>>

-----------------------------------------------------------------------------
(* Bounds of the model *)

\* Operations called inside the scope before teardown.
MaxOps == 3

-----------------------------------------------------------------------------
(* Bytes, text and values *)

LF == "\n"
BadByte == "?"
None == <<>>
Some(x) == <<x>>

ButLast(s) == IF Len(s) = 0 THEN <<>> ELSE SubSeq(s, 1, Len(s) - 1)

Digits == {"0", "1", "2", "3", "4", "5", "6", "7", "8", "9"}
DigitVal(c) ==
    CASE c = "0" -> 0 [] c = "1" -> 1 [] c = "2" -> 2 [] c = "3" -> 3
      [] c = "4" -> 4 [] c = "5" -> 5 [] c = "6" -> 6 [] c = "7" -> 7
      [] c = "8" -> 8 [] c = "9" -> 9
Whitespace == {" ", "\t", LF, "\r"}

NoneVal == [type |-> "None"]
BoolVal(b) == [type |-> "bool", b |-> b]
StrVal(s) == [type |-> "str", chars |-> s]
FloatVal(neg, mant, frac) ==
    [type |-> "float", neg |-> neg, mant |-> mant, frac |-> frac]
SpecialFloatVal(neg, word) == [type |-> "float", neg |-> neg, special |-> word]

Return(v) == [tag |-> "return", val |-> v]
Raise(e) == [tag |-> "raise", exc |-> e]

RECURSIVE LStrip(_)
LStrip(s) ==
    IF Len(s) > 0 /\ Head(s) \in Whitespace THEN LStrip(Tail(s)) ELSE s

RECURSIVE RStrip(_)
RStrip(s) ==
    IF Len(s) > 0 /\ s[Len(s)] \in Whitespace THEN RStrip(ButLast(s)) ELSE s

Lower(c) ==
    CASE c = "A" -> "a" [] c = "F" -> "f" [] c = "I" -> "i" [] c = "N" -> "n"
      [] c = "T" -> "t" [] c = "Y" -> "y" [] OTHER -> c

SpecialFloats ==
    { <<"n","a","n">>, <<"i","n","f">>, <<"i","n","f","i","n","i","t","y">> }

RECURSIVE DigitsValue(_)
DigitsValue(s) ==
    IF Len(s) = 0 THEN 0
    ELSE 10 * DigitsValue(ButLast(s)) + DigitVal(s[Len(s)])

\* Mutant of float(): the empty byte string parses as 0.0.
ParseFloat_empty_is_zero(bytes) ==
    IF bytes = <<>> THEN Some(FloatVal(FALSE, 0, 0))
    ELSE IF \A i \in 1..Len(bytes) : bytes[i] \in Digits \cup {"."}
    THEN Some(FloatVal(FALSE, DigitsValue(SelectSeq(bytes, LAMBDA c : c # ".")), 1))
    ELSE None

\* Python's float() of a byte string, for decimal literals without exponent
\* and for nan/inf: surrounding whitespace is dropped, one sign is allowed,
\* then digits with at most one point and at least one digit.  A result of
\* None is the ValueError.
ParseFloat(bytes) ==
    LET t == RStrip(LStrip(bytes))
        signed == Len(t) > 0 /\ Head(t) \in {"+", "-"}
        neg == Len(t) > 0 /\ Head(t) = "-"
        u == IF signed THEN Tail(t) ELSE t
        low == [i \in 1..Len(u) |-> Lower(u[i])]
        points == {i \in 1..Len(u) : u[i] = "."}
        digs == {i \in 1..Len(u) : u[i] \in Digits}
        p == IF points = {} THEN Len(u) + 1 ELSE CHOOSE i \in points : TRUE
        body == SelectSeq(u, LAMBDA c : c # ".")
    IN  IF low \in SpecialFloats THEN Some(SpecialFloatVal(neg, low))
        ELSE IF /\ Cardinality(points) <= 1
                /\ digs # {}
                /\ digs \cup points = 1..Len(u)
             THEN Some(FloatVal(neg, DigitsValue(body),
                                IF points = {} THEN 0 ELSE Len(u) - p))
             ELSE None

\* bytes.decode("utf-8"): None is the UnicodeDecodeError.
DecodeUtf8(bytes) ==
    IF \E i \in 1..Len(bytes) : bytes[i] = BadByte THEN None ELSE Some(bytes)

RECURSIVE Split(_, _)
\* str.split(sep): the fields between the separators, in order.
Split(s, sep) ==
    IF \A i \in 1..Len(s) : s[i] # sep THEN <<s>>
    ELSE LET k == CHOOSE i \in 1..Len(s) :
                      s[i] = sep /\ \A j \in 1..(i - 1) : s[j] # sep
         IN  <<SubSeq(s, 1, k - 1)>> \o Split(SubSeq(s, k + 1, Len(s)), sep)

-----------------------------------------------------------------------------
(* The static model table and the commands *)

DP711 == <<"D", "P", "7", "1", "1">>
DP712 == <<"D", "P", "7", "1", "2">>

MODEL_PARAMETERS ==
    [m \in {DP711, DP712} |->
        IF m = DP711 THEN [max_voltage |-> 30, max_current |-> 5]
                     ELSE [max_voltage |-> 50, max_current |-> 3]]

\* '<template>'.format(args).encode("utf-8"): the template and what fills it.
Format(template, args) == [template |-> template, args |-> args]

CMD_IDN == Format("*IDN?\n", <<>>)
CMD_LOC == Format(":SYST:LOC\n", <<>>)
CMD_BAUD(baud_rate) == Format(":SYST:COMM:RS232:BAUD {}\n", <<baud_rate>>)
CMD_VOLT(voltage) == Format(":VOLT {}\n", <<voltage>>)
CMD_CURR(current) == Format(":CURR {}\n", <<current>>)
CMD_LOAD(index) == Format(":MEM:LOAD RSF,{}\n", <<index>>)
CMD_STOR(index) == Format(":MEM:STOR RSF,{}\n", <<index>>)
CMD_OUTP_ON == Format(":OUTP:STAT CH1, ON\n", <<>>)
CMD_OUTP_OFF == Format(":OUTP:STAT CH1, OFF\n", <<>>)
CMD_OUTP_QUERY == Format(":OUTP:STAT? CH1 \n", <<>>)
CMD_VOLT_QUERY == Format(":VOLT?\n", <<>>)
CMD_MEAS_VOLT == Format(":MEAS:VOLT? CH1\n", <<>>)
CMD_CURR_QUERY == Format(":CURR?\n", <<>>)
CMD_MEAS_CURR == Format(":MEAS:CURR? CH1\n", <<>>)
CMD_MEAS_POWE == Format(":MEAS:POWE? CH1\n", <<>>)

-----------------------------------------------------------------------------
(* The serial transport: what one write and one readline may do *)

\* One environment outcome for one command: the write raises
\* (SerialException), or it returns and the readline raises, or the readline
\* returns `line` (empty on timeout, without line feed when cut short).
Envs(lines) ==
    {[write_ok |-> FALSE, read_ok |-> FALSE, line |-> <<>>],
     [write_ok |-> TRUE, read_ok |-> FALSE, line |-> <<>>]}
    \cup {[write_ok |-> TRUE, read_ok |-> TRUE, line |-> l] : l \in lines}

WriteCall(command, ok) ==
    [call |-> "write", ok |-> ok, command |-> command, baud |-> baudrate]
ReadlineCall(line, ok) ==
    [call |-> "readline", ok |-> ok, line |-> line, baud |-> baudrate]
FlushCall == [call |-> "flush", ok |-> TRUE, baud |-> baudrate]
BaudrateCall(baud_rate) ==
    [call |-> "baudrate", ok |-> TRUE, baud |-> baud_rate]
CloseCall == [call |-> "close", ok |-> TRUE, baud |-> baudrate]

\* The kind of a call as the history `calls` keeps it: a call that raised
\* carries a "!".
Kind(c) == IF c.ok THEN c.call ELSE c.call \o "!"

-----------------------------------------------------------------------------
(* PowerSupply *)

\* float(response), and on ValueError response.decode("utf-8").
_decode_response(response) ==
    LET f == ParseFloat(response)
        t == DecodeUtf8(response)
    IN  IF f # None THEN Return(f[1])
        ELSE IF t # None THEN Return(StrVal(t[1]))
        ELSE Raise("UnicodeDecodeError")

\* Mutant of the command execution: a timeout is answered by one retry.
_execute_command_retry(command, env) ==
    IF ~env.write_ok
    THEN [io |-> <<WriteCall(command, FALSE)>>, res |-> Raise("SerialException")]
    ELSE IF ~env.read_ok
    THEN [io |-> <<WriteCall(command, TRUE), ReadlineCall(<<>>, FALSE)>>,
          res |-> Raise("SerialException")]
    ELSE IF env.line = <<>>
    THEN [io |-> <<WriteCall(command, TRUE), ReadlineCall(<<>>, TRUE),
                   WriteCall(command, TRUE), ReadlineCall(<<>>, TRUE)>>,
          res |-> _decode_response(<<>>)]
    ELSE [io |-> <<WriteCall(command, TRUE), ReadlineCall(env.line, TRUE)>>,
          res |-> _decode_response(ButLast(env.line))]

\* write, readline, decode of the line without its last byte.  The calls
\* made and what is returned or raised.
_execute_command(command, env) ==
    IF ~env.write_ok
    THEN [io |-> <<WriteCall(command, FALSE)>>, res |-> Raise("SerialException")]
    ELSE IF ~env.read_ok
    THEN [io |-> <<WriteCall(command, TRUE), ReadlineCall(<<>>, FALSE)>>,
          res |-> Raise("SerialException")]
    ELSE [io |-> <<WriteCall(command, TRUE), ReadlineCall(env.line, TRUE)>>,
          res |-> _decode_response(ButLast(env.line))]

\* The transport calls an operation made (io) and what it returned or raised
\* (res), for an operation that discards the decoded response.
Discard(e) ==
    [io |-> e.io, res |-> IF e.res.tag = "raise" THEN e.res ELSE Return(NoneVal)]

\* An operation whose guard is false: no command, returns None.
Skipped == [io |-> <<>>, res |-> Return(NoneVal)]

\* Mutant of the identification: anything but four fields is refused.
_get_device_identification_strict(env) ==
    LET e == _execute_command(CMD_IDN, env)
    IN  IF e.res.tag = "raise" THEN [io |-> e.io, res |-> e.res, id |-> None]
        ELSE IF e.res.val.type # "str"
        THEN [io |-> e.io, res |-> Raise("AttributeError"), id |-> None]
        ELSE LET identification_values == Split(e.res.val.chars, ",")
             IN  IF Len(identification_values) # 4
                 THEN [io |-> e.io, res |-> Raise("IndexError"), id |-> None]
                 ELSE [io |-> e.io, res |-> Return(NoneVal),
                       id |-> Some([manufacturer |-> identification_values[1],
                                    model |-> identification_values[2],
                                    serial |-> identification_values[3],
                                    software_version |-> identification_values[4]])]

\* '*IDN?', split(','), and the fields 0..3.  id is None when the method
\* raised.
_get_device_identification(env) ==
    LET e == _execute_command(CMD_IDN, env)
    IN  IF e.res.tag = "raise" THEN [io |-> e.io, res |-> e.res, id |-> None]
        ELSE IF e.res.val.type # "str"
        THEN [io |-> e.io, res |-> Raise("AttributeError"), id |-> None]
        ELSE LET identification_values == Split(e.res.val.chars, ",")
             IN  IF Len(identification_values) < 4
                 THEN [io |-> e.io, res |-> Raise("IndexError"), id |-> None]
                 ELSE [io |-> e.io, res |-> Return(NoneVal),
                       id |-> Some([manufacturer |-> identification_values[1],
                                    model |-> identification_values[2],
                                    serial |-> identification_values[3],
                                    software_version |-> identification_values[4]])]

\* MODEL_PARAMETERS[self._model][key], None on KeyError.
ModelLimit(model, key) ==
    IF model \in DOMAIN MODEL_PARAMETERS
    THEN Some(MODEL_PARAMETERS[model][key])
    ELSE None

\* '{} {} {}'.format(manufacturer, model, software_version)
IdString(id) ==
    id.manufacturer \o <<" ">> \o id.model \o <<" ">> \o id.software_version

\* Mutants of the voltage guard: the limit itself refused; no limit refuses.
VoltageAllowed_strict(voltage) == max_voltage = None \/ voltage < max_voltage[1]
VoltageAllowed_none_blocks(voltage) ==
    max_voltage # None /\ voltage <= max_voltage[1]

\* The guards of the setters.
VoltageAllowed(voltage) == max_voltage = None \/ voltage <= max_voltage[1]
CurrentAllowed(current) == max_current = None \/ current <= max_current[1]
\* Mutant of the index guard: the range [1, 10] enforced.
IndexAllowed_and(index) == index >= 1 /\ index <= 10
IndexAllowed(index) == index >= 1 \/ index <= 10

\* Mutant of the comparison: everything but OFF counts as enabled.
IsOn_not_off(value) == value # StrVal(<<"O", "F", "F">>)

\* The comparison of is_output_enabled.
IsOn(value) == value = StrVal(<<"O", "N">>)

\* Mutant of set_baud_rate: the local baud rate is switched before the flush.
SetBaudRateRun_switch_first(baud_rate, env) ==
    LET e == _execute_command(CMD_BAUD(baud_rate), env)
    IN  IF e.res.tag = "raise"
        THEN [io |-> e.io, res |-> e.res, baud |-> baudrate]
        ELSE [io |-> e.io \o <<BaudrateCall(baud_rate),
                               [call |-> "flush", ok |-> TRUE, baud |-> baud_rate]>>,
              res |-> Return(NoneVal), baud |-> baud_rate]

\* set_baud_rate: the command, then flush, then the local baud rate.
SetBaudRateRun(baud_rate, env) ==
    LET e == _execute_command(CMD_BAUD(baud_rate), env)
    IN  IF e.res.tag = "raise"
        THEN [io |-> e.io, res |-> e.res, baud |-> baudrate]
        ELSE [io |-> e.io \o <<FlushCall, BaudrateCall(baud_rate)>>,
              res |-> Return(NoneVal), baud |-> baud_rate]

\* Mutant of __exit__: local control is restored only when the last operation
\* of the scope did not raise.
ExitRun_only_on_success(env) ==
    IF result.tag = "raise"
    THEN [io |-> <<CloseCall>>, res |-> Return(NoneVal), open |-> FALSE]
    ELSE LET e == _execute_command(CMD_LOC, env)
         IN  IF e.res.tag = "raise"
             THEN [io |-> e.io, res |-> e.res, open |-> TRUE]
             ELSE [io |-> e.io \o <<CloseCall>>, res |-> Return(NoneVal),
                   open |-> FALSE]

\* __exit__: the local-control command, then close.  A raise of the command
\* leaves the method before close.
ExitRun(env) ==
    LET e == _execute_command(CMD_LOC, env)
    IN  IF e.res.tag = "raise"
        THEN [io |-> e.io, res |-> e.res, open |-> TRUE]
        ELSE [io |-> e.io \o <<CloseCall>>, res |-> Return(NoneVal),
              open |-> FALSE]

-----------------------------------------------------------------------------
(* Inputs *)

DefaultBaudrate == 9600
BaudRates == {9600, 19200}
Voltages == {30, 31, 50, 51}
Currents == {3, 4, 5, 6}
Indexes == {0, 5, 11}

Line(text) == text \o <<LF>>
IdnText(model) == <<"R", ",">> \o model \o <<",", "S", ",", "1">>

\* Identification responses: four fields of a known and of an unknown
\* model, three fields, five fields, a timeout, a number, invalid UTF-8.
IdnLines ==
    { Line(IdnText(DP711)), Line(IdnText(DP712)),
      Line(IdnText(<<"D", "P", "9">>)),
      Line(<<"R", ",">> \o DP711 \o <<",", "S">>),
      Line(IdnText(DP711) \o <<",", "X">>),
      <<>>,
      Line(<<"1", ".", "5">>),
      Line(<<BadByte>>) }

\* Responses to the other commands: a timeout, ON, OFF, an ON cut short of
\* its line feed, an empty line, a number, ON with a carriage return,
\* invalid UTF-8.
ReplyLines ==
    { <<>>,
      Line(<<"O", "N">>), Line(<<"O", "F", "F">>),
      <<"O", "N">>,
      Line(<<>>),
      Line(<<"1", ".", "5">>),
      Line(<<"O", "N", "\r">>),
      Line(<<BadByte>>) }

\* Responses to the commands whose response is discarded (the setters and
\* :SYST:LOC, which the device does not answer): a timeout, a stray line,
\* invalid UTF-8.
AckLines == { <<>>, Line(<<"1", ".", "5">>), Line(<<BadByte>>) }

-----------------------------------------------------------------------------
(* Operations *)

Init ==
    /\ pc = "start"
    /\ is_open = FALSE
    /\ baudrate = DefaultBaudrate
    /\ ident = None
    /\ max_voltage = None
    /\ max_current = None
    /\ op = [name |-> "", args |-> <<>>]
    /\ io = <<>>
    /\ calls = <<>>
    /\ last_write = None
    /\ loc_writes = 0
    /\ result = Return(NoneVal)
    /\ nops = 0

\* What every operation records: its name and arguments, its transport
\* calls, and its outcome.
Record(name, args, run) ==
    LET w == {i \in 1..Len(run.io) : run.io[i].call = "write"}
        last == CHOOSE i \in w : \A j \in w : j <= i
    IN  /\ op' = [name |-> name, args |-> args]
        /\ io' = run.io
        /\ calls' = calls \o [i \in 1..Len(run.io) |-> Kind(run.io[i])]
        /\ last_write' = IF w = {} THEN last_write
                                   ELSE Some(run.io[last].command)
        /\ loc_writes' = loc_writes
              + Cardinality({i \in w : run.io[i].command = CMD_LOC})
        /\ result' = run.res

\* PowerSupply(port): serial.Serial opens the port or raises; then the
\* identification, the id string and the limits.
__init__ ==
    /\ pc = "start"
    /\ \E open_ok \in BOOLEAN, env \in Envs(IdnLines) :
         IF ~open_ok
         THEN /\ Record("__init__", <<>>,
                        [io |-> <<>>, res |-> Raise("SerialException")])
              /\ pc' = "ctor_failed"
              /\ UNCHANGED <<is_open, ident, max_voltage, max_current>>
         ELSE LET r == _get_device_identification(env)
              IN  /\ Record("__init__", <<>>, r)
                  /\ is_open' = TRUE
                  /\ IF r.id = None
                     THEN /\ pc' = "ctor_failed"
                          /\ UNCHANGED <<ident, max_voltage, max_current>>
                     ELSE /\ pc' = "scope"
                          /\ ident' = Some(r.id[1] @@ [id |-> IdString(r.id[1])])
                          /\ max_voltage' = ModelLimit(r.id[1].model, "max_voltage")
                          /\ max_current' = ModelLimit(r.id[1].model, "max_current")
    /\ UNCHANGED <<baudrate, nops>>

\* An operation called inside the scope.
ScopeOp(name, args, run) ==
    /\ pc = "scope"
    /\ nops < MaxOps
    /\ nops' = nops + 1
    /\ Record(name, args, run)
    /\ UNCHANGED <<pc, is_open, ident, max_voltage, max_current>>

set_baud_rate ==
    \E baud_rate \in BaudRates, env \in Envs(AckLines) :
        LET r == SetBaudRateRun(baud_rate, env)
        IN  /\ ScopeOp("set_baud_rate", <<baud_rate>>, r)
            /\ baudrate' = r.baud

set_output_voltage ==
    \E voltage \in Voltages, env \in Envs(AckLines) :
        /\ ScopeOp("set_output_voltage", <<voltage>>,
                   IF VoltageAllowed(voltage)
                   THEN Discard(_execute_command(CMD_VOLT(voltage), env))
                   ELSE Skipped)
        /\ UNCHANGED baudrate

set_output_current ==
    \E current \in Currents, env \in Envs(AckLines) :
        /\ ScopeOp("set_output_current", <<current>>,
                   IF CurrentAllowed(current)
                   THEN Discard(_execute_command(CMD_CURR(current), env))
                   ELSE Skipped)
        /\ UNCHANGED baudrate

\* A getter: the command, and the decoded response returned as it is.
Getter(name, command) ==
    \E env \in Envs(ReplyLines) :
        LET e == _execute_command(command, env)
        IN  /\ ScopeOp(name, <<>>, [io |-> e.io, res |-> e.res])
            /\ UNCHANGED baudrate

get_requested_output_voltage == Getter("get_requested_output_voltage", CMD_VOLT_QUERY)
get_output_voltage == Getter("get_output_voltage", CMD_MEAS_VOLT)
get_requested_output_current == Getter("get_requested_output_current", CMD_CURR_QUERY)
get_output_current == Getter("get_output_current", CMD_MEAS_CURR)
get_output_power == Getter("get_output_power", CMD_MEAS_POWE)

recall_from_memory ==
    \E index \in Indexes, env \in Envs(AckLines) :
        /\ ScopeOp("recall_from_memory", <<index>>,
                   IF IndexAllowed(index)
                   THEN Discard(_execute_command(CMD_LOAD(index), env))
                   ELSE Skipped)
        /\ UNCHANGED baudrate

save_to_memory ==
    \E index \in Indexes, env \in Envs(AckLines) :
        /\ ScopeOp("save_to_memory", <<index>>,
                   IF IndexAllowed(index)
                   THEN Discard(_execute_command(CMD_STOR(index), env))
                   ELSE Skipped)
        /\ UNCHANGED baudrate

enable_output ==
    \E enable \in BOOLEAN, env \in Envs(AckLines) :
        /\ ScopeOp("enable_output", <<enable>>,
                   Discard(_execute_command(
                       IF enable THEN CMD_OUTP_ON ELSE CMD_OUTP_OFF, env)))
        /\ UNCHANGED baudrate

is_output_enabled ==
    \E env \in Envs(ReplyLines) :
        LET e == _execute_command(CMD_OUTP_QUERY, env)
        IN  /\ ScopeOp("is_output_enabled", <<>>,
                       [io |-> e.io,
                        res |-> IF e.res.tag = "raise" THEN e.res
                                ELSE Return(BoolVal(IsOn(e.res.val)))])
            /\ UNCHANGED baudrate

\* get_identification: the cached string, no command.
get_identification ==
    /\ ScopeOp("get_identification", <<>>,
               [io |-> <<>>, res |-> Return(StrVal(ident[1].id))])
    /\ UNCHANGED baudrate

\* The end of the with block, reached normally or by an exception of an
\* operation: :SYST:LOC, then close.
__exit__ ==
    /\ pc = "scope"
    /\ \E env \in Envs(AckLines) :
         LET r == ExitRun(env)
         IN  /\ Record("__exit__", <<>>, [io |-> r.io, res |-> r.res])
             /\ is_open' = r.open
             /\ pc' = IF r.res.tag = "raise" THEN "exit_failed" ELSE "exited"
    /\ UNCHANGED <<baudrate, ident, max_voltage, max_current, nops>>

Next ==
    \/ __init__
    \/ set_baud_rate
    \/ set_output_voltage
    \/ get_requested_output_voltage
    \/ get_output_voltage
    \/ set_output_current
    \/ get_requested_output_current
    \/ get_output_current
    \/ get_output_power
    \/ recall_from_memory
    \/ save_to_memory
    \/ enable_output
    \/ is_output_enabled
    \/ get_identification
    \/ __exit__

Spec == Init /\ [][Next]_vars

-----------------------------------------------------------------------------
(* Claims *)

\* What the claims read off the last operation.
WriteIdx == {i \in 1..Len(io) : io[i].call = "write"}
ReadIdx == {i \in 1..Len(io) : io[i].call = "readline"}
InScopeOrAfter == pc \in {"scope", "exited", "exit_failed"}
Model == ident[1].model
Cmd(template, args) == [template |-> template, args |-> args]
\* The operation wrote exactly this command, once, as its first call.
WroteOnce(command) ==
    /\ Cardinality(WriteIdx) = 1
    /\ io[1].call = "write"
    /\ io[1].command = command
\* The readline of the last operation returned no data (a timeout).
TimedOut == \E i \in ReadIdx : io[i].ok /\ io[i].line = <<>>

\* C1: for a model of the static table the limits are those of the table
\* (DP711: 30/5, DP712: 50/3); set_output_voltage(v) writes exactly one
\* command ":VOLT v" when v <= max_voltage, v = max_voltage included, and
\* makes no transport call when v > max_voltage; set_output_current likewise
\* with ":CURR i" and max_current.  No operation writes a :VOLT or :CURR
\* command with a value above the limit: every write call ever made is a call
\* of the operation of some reachable state, where this invariant covers it.
C1_LimitGuards ==
    InScopeOrAfter /\ Model \in {DP711, DP712} =>
        /\ Model = DP711 => max_voltage = <<30>> /\ max_current = <<5>>
        /\ Model = DP712 => max_voltage = <<50>> /\ max_current = <<3>>
        /\ op.name = "set_output_voltage" =>
              IF op.args[1] <= max_voltage[1]
              THEN WroteOnce(Cmd(":VOLT {}\n", op.args))
              ELSE io = <<>>
        /\ op.name = "set_output_current" =>
              IF op.args[1] <= max_current[1]
              THEN WroteOnce(Cmd(":CURR {}\n", op.args))
              ELSE io = <<>>
        /\ \A i \in WriteIdx :
              /\ io[i].command.template = ":VOLT {}\n"
                    => io[i].command.args[1] <= max_voltage[1]
              /\ io[i].command.template = ":CURR {}\n"
                    => io[i].command.args[1] <= max_current[1]

\* C1 witness: a DP711 whose voltage was set to the limit of 30, and a later
\* set_output_voltage(31) that made no transport call.
C1_Witness ==
    /\ pc = "scope"
    /\ Model = DP711
    /\ op.name = "set_output_voltage"
    /\ op.args = <<31>>
    /\ io = <<>>
    /\ last_write = <<Cmd(":VOLT {}\n", <<30>>)>>

\* C2: once the scope is left, normally or after an operation raised, exactly
\* one write call carried ":SYST:LOC", it was made by the teardown as its
\* first call, and no write call came after it; before the teardown no
\* write call carries it.
C2_LocalControlOnce ==
    /\ pc \in {"exited", "exit_failed"} =>
          /\ loc_writes = 1
          /\ last_write = <<Cmd(":SYST:LOC\n", <<>>)>>
          /\ op.name = "__exit__"
          /\ WroteOnce(Cmd(":SYST:LOC\n", <<>>))
    /\ pc \in {"start", "scope", "ctor_failed"} =>
          /\ loc_writes = 0
          /\ last_write # <<Cmd(":SYST:LOC\n", <<>>)>>

\* C2 witness: the scope was left right after an operation raised, and the
\* teardown wrote its command and closed.
C2_Witness ==
    /\ pc = "exited"
    /\ loc_writes = 1
    /\ \E i \in 1..Len(calls) :
          /\ calls[i] \in {"write!", "readline!"}
          /\ SubSeq(calls, i + 1, Len(calls))
                \in {<<"write", "readline", "close">>,
                     <<"readline!", "write", "readline", "close">>}

\* C3: whenever the scope has been left the transport is closed, and the
\* transport is closed only after the local-control command was written.
C3_ClosedOnEveryExit ==
    /\ pc \in {"exited", "exit_failed"} => ~is_open
    /\ \A i \in 1..Len(calls) : calls[i] = "close" => loc_writes = 1

\* C4 as claimed: an operation whose readline timed out raises a transport
\* error and returns no value.
C4_TimeoutRaises == TimedOut => result = Raise("SerialException")

Getters ==
    {"get_requested_output_voltage", "get_output_voltage",
     "get_requested_output_current", "get_output_current", "get_output_power"}

\* C4 amended: a readline that timed out raises nothing; the empty response
\* decodes to the empty text, which a getter returns, is_output_enabled
\* answers with false, and the setters and the teardown discard; only the
\* construction fails, with an IndexError, for the lack of four fields.
C4_TimeoutIsEmptyText ==
    TimedOut =>
        /\ op.name \in Getters => result = Return(StrVal(<<>>))
        /\ op.name = "is_output_enabled" => result = Return(BoolVal(FALSE))
        /\ op.name = "__init__" =>
              result = Raise("IndexError") /\ pc = "ctor_failed"
        /\ op.name \notin Getters \cup {"is_output_enabled", "__init__"} =>
              result = Return(NoneVal)

\* C4 witness: get_output_voltage returned the empty text after a timeout.
C4_Witness ==
    /\ op.name = "get_output_voltage"
    /\ TimedOut
    /\ result = Return(StrVal(<<>>))

\* The comma-separated fields of a line without its last byte, counted by
\* its commas.
FieldCount(line) ==
    Cardinality({i \in 1..Len(ButLast(line)) : line[i] = ","}) + 1
\* The line the construction read, when its readline returned.
IdnRead == op.name = "__init__" /\ \E i \in ReadIdx : io[i].ok
IdnLine == io[CHOOSE i \in ReadIdx : io[i].ok].line

\* C5 as claimed: the construction produces a driver exactly when the
\* identification response has four comma-separated fields.
C5_ExactlyFourFields == IdnRead => (pc = "scope" <=> FieldCount(IdnLine) = 4)

\* C5 amended: the construction fails (IndexError, or AttributeError for a
\* number, or UnicodeDecodeError) whenever the response has fewer than four
\* comma-separated fields, and no driver is produced; a response that decodes
\* to text with four or more fields produces a driver from its first four
\* fields, the fields after the fourth being ignored.
C5_AtLeastFourFields ==
    IdnRead =>
        /\ FieldCount(IdnLine) < 4 =>
              /\ pc = "ctor_failed"
              /\ ident = None
              /\ result.tag = "raise"
              /\ result.exc \in {"IndexError", "AttributeError", "UnicodeDecodeError"}
        /\ FieldCount(IdnLine) >= 4 /\ (\A i \in 1..Len(IdnLine) : IdnLine[i] # BadByte) =>
              /\ pc = "scope"
              /\ result = Return(NoneVal)
              /\ ident[1].manufacturer = <<"R">>
              /\ ident[1].serial = <<"S">>
              /\ ident[1].software_version = <<"1">>
              /\ SubSeq(IdnLine, 3, 2 + Len(Model)) = Model
              /\ IdnLine[3 + Len(Model)] = ","
        /\ pc = "scope" => FieldCount(IdnLine) >= 4

\* C5 witness: a driver constructed from a response of five fields.
C5_Witness == IdnRead /\ pc = "scope" /\ FieldCount(IdnLine) = 5

UnknownModel == <<"D", "P", "9">>

\* C6: a response naming a model absent from the static table constructs a
\* driver with both limits none, and from then on every set_output_voltage(v)
\* and set_output_current(i) writes its command, whatever the value.
C6_UnknownModelNoLimits ==
    /\ IdnRead /\ IdnLine = <<"R", ",", "D", "P", "9", ",", "S", ",", "1", LF>> =>
          pc = "scope" /\ Model = UnknownModel
    /\ InScopeOrAfter /\ Model \notin {DP711, DP712} =>
          /\ max_voltage = None
          /\ max_current = None
          /\ op.name = "set_output_voltage" => WroteOnce(Cmd(":VOLT {}\n", op.args))
          /\ op.name = "set_output_current" => WroteOnce(Cmd(":CURR {}\n", op.args))

\* C6 witness: an unknown model, and set_output_voltage(51), above every limit
\* of the table, written.
C6_Witness ==
    /\ pc = "scope"
    /\ Model = UnknownModel
    /\ op.name = "set_output_voltage"
    /\ op.args = <<51>>
    /\ WroteOnce(Cmd(":VOLT {}\n", <<51>>))

\* C7: when is_output_enabled returns, it returns true if the line read,
\* without its last byte, is the two bytes ON, and false for everything else:
\* OFF, other text, the empty text, a number.
C7_EnabledIffOn ==
    op.name = "is_output_enabled" /\ result.tag = "return" =>
        /\ Len(io) = 2
        /\ io[2].call = "readline"
        /\ result.val = BoolVal(ButLast(io[2].line) = <<"O", "N">>)

\* C7 witness: is_output_enabled returned false for a response that decodes
\* as a number.
C7_Witness ==
    /\ op.name = "is_output_enabled"
    /\ result = Return(BoolVal(FALSE))
    /\ Len(io) = 2
    /\ io[2].line = <<"1", ".", "5", LF>>

\* C8: recall_from_memory(idx) and save_to_memory(idx) write their command,
\* ":MEM:LOAD RSF,idx" and ":MEM:STOR RSF,idx", exactly once for every idx,
\* those outside [1, 10] included.
C8_MemoryGuardNeverSkips ==
    /\ op.name = "recall_from_memory" =>
          WroteOnce(Cmd(":MEM:LOAD RSF,{}\n", op.args))
    /\ op.name = "save_to_memory" =>
          WroteOnce(Cmd(":MEM:STOR RSF,{}\n", op.args))

\* C8 witness: recall_from_memory(11) written, after the transport calls of
\* the construction and of an earlier command.
C8_Witness ==
    /\ op.name = "recall_from_memory"
    /\ op.args = <<11>>
    /\ WroteOnce(Cmd(":MEM:LOAD RSF,{}\n", <<11>>))
    /\ Len(calls) >= 4
    /\ calls[Len(calls) - Len(io)] \in {"write!", "readline", "readline!"}

\* What C9 says of a state: a set_baud_rate(rate) that returned wrote its
\* command and read the response at the old baud rate, then flushed, then
\* switched the local baud rate, which is rate from then on; one that raised
\* left the local baud rate as it was when the command was written.
C9_State ==
    op.name = "set_baud_rate" =>
        /\ io[1].call = "write"
        /\ io[1].command = Cmd(":SYST:COMM:RS232:BAUD {}\n", op.args)
        /\ result.tag = "return" =>
              /\ Len(io) = 4
              /\ <<io[1].call, io[2].call, io[3].call, io[4].call>>
                    = <<"write", "readline", "flush", "baudrate">>
              /\ io[2].baud = io[1].baud
              /\ io[3].baud = io[1].baud
              /\ io[4].baud = op.args[1]
              /\ baudrate = op.args[1]
        /\ result.tag = "raise" =>
              /\ baudrate = io[1].baud
              /\ \A i \in 1..Len(io) : io[i].call \notin {"flush", "baudrate"}

\* What C9 says of a step: the local baud rate changes only in a step of
\* set_baud_rate, and that step writes its command at the rate before it.
C9_Step ==
    /\ baudrate' # baudrate => op'.name = "set_baud_rate"
    /\ op'.name = "set_baud_rate" => io'[1].baud = baudrate

\* C9: set_baud_rate(rate) writes ":SYST:COMM:RS232:BAUD rate" at the old baud
\* rate, then flushes, and only then switches the local baud rate to rate; if
\* the write or the read of the command fails the local rate is unchanged;
\* no other operation changes the local baud rate.
C9_BaudRateSwitch == [](C9_State) /\ [][C9_Step]_vars

\* C9 witness: set_baud_rate(19200) returned on a port opened at 9600.
C9_Witness ==
    /\ op.name = "set_baud_rate"
    /\ op.args = <<19200>>
    /\ result.tag = "return"
    /\ io[1].baud = 9600
    /\ baudrate = 19200

\* The transport calls so far that are a write or a readline.
IsRead(k) == k \in {"readline", "readline!"}

\* C10: a command is one write call and, once it returned, one readline
\* call, with no retry.  A readline call comes right after a write call
\* that returned, a write call that returned is followed at once by a
\* readline call, a write call that raised is followed by no readline, there
\* are as many readline calls as write calls that returned, no operation makes
\* more than one write call, and an operation whose guard skips the command
\* makes no transport call.
C10_OneWriteOneRead ==
    /\ \A i \in 1..Len(calls) :
          /\ IsRead(calls[i]) => i > 1 /\ calls[i - 1] = "write"
          /\ calls[i] = "write" => i < Len(calls) /\ IsRead(calls[i + 1])
    /\ Cardinality({i \in 1..Len(calls) : IsRead(calls[i])})
          = Cardinality({i \in 1..Len(calls) : calls[i] = "write"})
    /\ Cardinality(WriteIdx) <= 1
    /\ Cardinality(ReadIdx) <= 1
    /\ /\ op.name = "set_output_voltage"
       /\ max_voltage # None
       /\ op.args[1] > max_voltage[1]
       => io = <<>>
    /\ /\ op.name = "set_output_current"
       /\ max_current # None
       /\ op.args[1] > max_current[1]
       => io = <<>>

\* C10 witness: the scope left after a write that raised and three commands
\* that were written and read.
C10_Witness ==
    /\ pc = "exited"
    /\ \E i \in 1..Len(calls) : calls[i] = "write!"
    /\ Cardinality({i \in 1..Len(calls) : calls[i] = "write"}) >= 3

====
